---- MODULE Spec2Model ----
(***************************************************************************)
(* sdk_pulse: a measurement harness that provisions two Breez SDK node     *)
(* sessions, runs three timed payment scenarios and appends one CSV row    *)
(* per run.  The model follows src/src/main.rs: one action per step of     *)
(* main, with every awaited SDK call split into the step that issues it    *)
(* and the step that receives its outcome.  The SDK itself is a black box: *)
(* each of its calls returns any of the outcomes its type allows.          *)
(***************************************************************************)
EXTENDS Integers, Sequences, FiniteSets, TLC

\* ---------------------------------------------------------------- bounds
\* Largest reading of the monotonic clock (Instant) within one run, seconds.
MaxClock == 5
\* Number of executions of the program against the same CSV file.
MaxRuns == 2
\* Largest wall-clock reading (seconds since the epoch) a run can start at.
MaxTs == 1

\* ------------------------------------------------------- input alphabets
\* Reason strings an LNURL endpoint or the payment protocol can report.
\* The SDK places no constraint on them; the empty string is one of them.
Reasons == {"", "invoice expired"}
\* Display renderings of SDK errors (the `{e}` / e.to_string() of the code).
ErrDescs == {"Generic: timeout"}
Timestamps == 1..MaxTs

Sessions == {1, 2}
\* The three scenario calls of main, named after their result variables.
Scenarios == {"gl2wos", "gl2gl", "gl2tor"}
AddrScenarios == {"gl2wos", "gl2tor"}

\* Option<u64>: None is the empty set, Some(d) is {d}.
None == {}
Some(d) == {d}
\* A scenario that has not returned yet has no result.
NoRes == <<None, "<pending>">>

\* ------------------------------------------------------ pure functions
\* Instant::now().duration_since(ts_start).as_secs() -- the clock is kept in
\* whole seconds and is monotonic, so the difference is never negative.
test_ok(ts_start, t) == <<Some(t - ts_start), "Ok">>

test_err(err) == <<None, err>>

\* Option<u64>::map(|d| d.to_string()).unwrap_or_default()
ElapsedField(opt) == IF opt = None THEN "" ELSE ToString(CHOOSE d \in opt : TRUE)

\* Outcomes of parse(ln_address): Result<InputType>.
ParseOutcomes ==
    {[tag |-> "LnUrlPay", reason |-> ""], [tag |-> "Other", reason |-> ""],
     [tag |-> "Err", reason |-> ""]}
    \cup {[tag |-> "LnUrlError", reason |-> r] : r \in Reasons}

\* Outcomes of sdk_sender.lnurl_pay(..): Result<LnUrlPayResult>.
PayOutcomes ==
    {[tag |-> "EndpointSuccess", reason |-> ""]}
    \cup {[tag |-> "EndpointError", reason |-> r] : r \in Reasons}
    \cup {[tag |-> "PayError", reason |-> r] : r \in Reasons}
    \cup {[tag |-> "Err", reason |-> e] : e \in ErrDescs}

\* Outcomes of receive_payment / send_payment: Ok(_) or Err(e).
SdkOutcomes ==
    {[tag |-> "Ok", reason |-> ""]} \cup {[tag |-> "Err", reason |-> e] : e \in ErrDescs}

\* Faulty variant of ParseFailResult: the LNURL reason is passed on without a prefix.
ParseFailResultBare(out) ==
    IF out.tag = "LnUrlError"
    THEN <<None, out.reason>>
    ELSE <<None, "Failed to parse LN Address">>

\* The arms of the outer match of pay_gl_2_ln_address that return at once.
ParseFailResult(out) ==
    IF out.tag = "LnUrlError"
    THEN test_err("LNURL error: " \o out.reason)
    ELSE test_err("Failed to parse LN Address")

\* The inner match of pay_gl_2_ln_address on the outcome of lnurl_pay.
LnurlPayResult(out, ts_start, t) ==
    CASE out.tag = "EndpointSuccess" -> test_ok(ts_start, t)
      [] out.tag = "EndpointError"   -> test_err(out.reason)
      [] out.tag = "PayError"        -> test_err(out.reason)
      [] OTHER                       -> test_err(out.reason)

\* The Err arm of the outer match of pay_gl_2_gl.
RecvFailResult(out) == test_err("[sdk-rx] Failed to create invoice: " \o out.reason)

\* The inner match of pay_gl_2_gl on the outcome of send_payment.
SendResult(out, ts_start, t) ==
    IF out.tag = "Ok"
    THEN test_ok(ts_start, t)
    ELSE test_err("[sdk-tx] Failed to send payment: " \o out.reason)

\* The record handed to wtr.write_record.
CsvRecord(ts, wos, gl, tor) ==
    <<ToString(ts), ElapsedField(wos[1]), wos[2], ElapsedField(gl[1]), gl[2],
      ElapsedField(tor[1]), tor[2]>>

\* ------------------------------------------------------------------ state
VARIABLES
    pc,         \* position of main
    run,        \* number of the current execution of the program
    start_ts,   \* Option: the run's start timestamp
    sess,       \* per session: "none", "connected" or "disconnected"
    inflight,   \* SDK calls issued and not yet returned
    now,        \* reading of the monotonic clock
    ts_start,   \* Option: the Instant captured by the running scenario
    delay,      \* seconds the call in flight has been pending
    res,        \* per scenario: its returned pair, NoRes before it returns
    wtr,        \* records buffered in the csv::Writer
    fileExists, \* whether the CSV file exists
    file,       \* rows of the CSV file
    sdkLog,     \* history: SDK calls issued in this run, in order
    stepLog,    \* history: begin/end of the steps of main in this run
    delays,     \* history: the calls of pay_gl_2_gl, seconds pending and outcome
    timers,     \* history: scenarios that captured ts_start in this run
    fileAtStart,\* history: rows of the file when this run started
    done        \* history: records written by the runs that returned Ok

vars == <<pc, run, start_ts, sess, inflight, now, ts_start, delay, res, wtr,
          fileExists, file, sdkLog, stepLog, delays, timers, fileAtStart, done>>

Call(step, s, op) == [step |-> step, sess |-> s, op |-> op]
Begin(step) == <<"begin", step>>
End(step) == <<"end", step>>

Exited == pc \in {"done", "aborted"}

\* The state of a process that has just been started.
FreshRun ==
    /\ pc' = "start"
    /\ start_ts' = None
    /\ sess' = [i \in Sessions |-> "none"]
    /\ inflight' = {}
    /\ now' = 0
    /\ ts_start' = None
    /\ delay' = 0
    /\ res' = [k \in Scenarios |-> NoRes]
    /\ wtr' = <<>>
    /\ sdkLog' = <<>>
    /\ stepLog' = <<>>
    /\ delays' = <<>>
    /\ timers' = {}

Init ==
    /\ pc = "start"
    /\ run = 1
    /\ start_ts = None
    /\ sess = [i \in Sessions |-> "none"]
    /\ inflight = {}
    /\ now = 0
    /\ ts_start = None
    /\ delay = 0
    /\ res = [k \in Scenarios |-> NoRes]
    /\ wtr = <<>>
    /\ fileExists = FALSE
    /\ file = <<>>
    /\ sdkLog = <<>>
    /\ stepLog = <<>>
    /\ delays = <<>>
    /\ timers = {}
    /\ fileAtStart = <<>>
    /\ done = <<>>

\* `?` on an Err: main returns the error and the process exits.  Nothing is
\* run on the way out except the drops of the locals.
Abort(step) ==
    /\ pc' = "aborted"
    /\ inflight' = {}
    /\ stepLog' = Append(stepLog, <<"abort", step>>)

\* ----------------------------------------------------------------- main
StartOutcomes == {Some(t) : t \in Timestamps} \cup {None}

\* SystemTime::now() and start.duration_since(UNIX_EPOCH)?.as_secs();
\* t = None is the SystemTimeError of a clock set before the epoch.
Start(t) ==
    /\ pc = "start"
    /\ IF t = None
       THEN Abort("start") /\ UNCHANGED start_ts
       ELSE pc' = "config" /\ start_ts' = t /\ UNCHANGED <<inflight, stepLog>>
    /\ UNCHANGED <<run, sess, now, ts_start, delay, res, wtr, fileExists, file,
                   sdkLog, delays, timers, fileAtStart, done>>

\* Figment::new().merge(Toml::file(..)) and figment.extract()?
LoadConfig(ok) ==
    /\ pc = "config"
    /\ IF ok
       THEN /\ pc' = "logging"
            /\ stepLog' = stepLog \o <<Begin("config"), End("config")>>
            /\ UNCHANGED inflight
       ELSE Abort("config")
    /\ UNCHANGED <<run, start_ts, sess, now, ts_start, delay, res, wtr, fileExists,
                   file, sdkLog, delays, timers, fileAtStart, done>>

\* std::fs::create_dir_all(log_dir)? and BreezServices::init_logging(..)?
InitLogging(ok) ==
    /\ pc = "logging"
    /\ IF ok
       THEN pc' = "get_sdk_1" /\ UNCHANGED <<inflight, stepLog>>
       ELSE Abort("logging")
    /\ UNCHANGED <<run, start_ts, sess, now, ts_start, delay, res, wtr, fileExists,
                   file, sdkLog, delays, timers, fileAtStart, done>>

PcOf(base, i) == base \o "_" \o ToString(i)

\* get_sdk up to the await of BreezServices::connect.  ok = FALSE is an Err
\* of Mnemonic::from_str or of create_dir_all, returned by `?`.
GetSdkCall(i, ok) ==
    /\ pc = PcOf("get_sdk", i)
    /\ IF ok
       THEN /\ pc' = PcOf("connect", i)
            /\ inflight' = inflight \cup {Call(PcOf("sdk", i), i, "connect")}
            /\ sdkLog' = Append(sdkLog, Call(PcOf("sdk", i), i, "connect"))
            /\ stepLog' = Append(stepLog, Begin(PcOf("sdk", i)))
            /\ delay' = 0
       ELSE /\ Abort(PcOf("sdk", i))
            /\ UNCHANGED <<sdkLog, delay>>
    /\ UNCHANGED <<run, start_ts, sess, now, ts_start, res, wtr, fileExists, file,
                   delays, timers, fileAtStart, done>>

\* BreezServices::connect(..).await? and the Ok(sdk) of get_sdk.
GetSdkReturn(i, ok) ==
    /\ pc = PcOf("connect", i)
    /\ IF ok
       THEN /\ pc' = PcOf("node_info", i)
            /\ sess' = [sess EXCEPT ![i] = "connected"]
            /\ inflight' = inflight \ {Call(PcOf("sdk", i), i, "connect")}
            /\ stepLog' = Append(stepLog, End(PcOf("sdk", i)))
       ELSE /\ Abort(PcOf("sdk", i))
            /\ UNCHANGED sess
    /\ UNCHANGED <<run, start_ts, now, ts_start, delay, res, wtr, fileExists, file,
                   sdkLog, delays, timers, fileAtStart, done>>

\* Faulty variant of AfterNodeInfo: the scenarios start once session 1 is up.
AfterNodeInfoEarly(i) == "gl2wos"

\* Where main continues after the node info of session i is logged.
AfterNodeInfo(i) == IF i = 1 THEN "get_sdk_2" ELSE "gl2wos"

\* info!(.., sdk_i.node_info()?) -- a synchronous call.
NodeInfo(i, ok) ==
    /\ pc = PcOf("node_info", i)
    /\ sdkLog' = Append(sdkLog, Call(PcOf("sdk", i), i, "node_info"))
    /\ IF ok
       THEN /\ pc' = AfterNodeInfo(i)
            /\ UNCHANGED <<inflight, stepLog>>
       ELSE Abort(PcOf("node_info", i))
    /\ UNCHANGED <<run, start_ts, sess, now, ts_start, delay, res, wtr, fileExists,
                   file, delays, timers, fileAtStart, done>>

\* Where main continues after the scenario k has returned.
AfterScenario(k) ==
    CASE k = "gl2wos" -> "gl2gl"
      [] k = "gl2gl"  -> "gl2tor"
      [] k = "gl2tor" -> "disconnect_1"

\* Faulty variant of ScenarioFatal: `?` applied to a failed scenario.
ScenarioFatalOnFailure(pair) == pair[1] = None

\* Whether main returns early on the pair a scenario returned: the three
\* results are bound with a plain let, no `?` is applied to them.
ScenarioFatal(pair) == FALSE

\* The scenario k returns pair to main.
ScenarioReturns(k, pair) ==
    /\ res' = [res EXCEPT ![k] = pair]
    /\ IF ScenarioFatal(pair)
       THEN pc' = "aborted" /\ stepLog' = Append(stepLog, <<"abort", k>>)
       ELSE pc' = AfterScenario(k) /\ stepLog' = Append(stepLog, End(k))

\* ---------------------------------------------------- pay_gl_2_ln_address
\* main calls pay_gl_2_ln_address(sdk_1.clone(), ..), which awaits parse.
ParseCall(k) ==
    /\ k \in AddrScenarios
    /\ pc = k
    /\ pc' = k \o "_parse"
    /\ inflight' = inflight \cup {Call(k, 0, "parse")}
    /\ sdkLog' = Append(sdkLog, Call(k, 0, "parse"))
    /\ stepLog' = Append(stepLog, Begin(k))
    /\ delay' = 0
    /\ UNCHANGED <<run, start_ts, sess, now, ts_start, res, wtr, fileExists, file,
                   delays, timers, fileAtStart, done>>

\* Faulty variant of AddrTimerStart: the Instant is taken whatever parse returned.
AddrTimerStartAlways(out, t) == {t}

\* The Instant the address scenario captures once parse has returned out.
AddrTimerStart(out, t) == IF out.tag = "LnUrlPay" THEN Some(t) ELSE None

\* Whether the address scenario goes on to lnurl_pay after parse returned out.
AddrPays(out) == out.tag = "LnUrlPay"

\* parse returns: the LnUrlPay arm takes ts_start and awaits lnurl_pay, the
\* other arms return test_err at once.
ParseReturn(k, out) ==
    /\ k \in AddrScenarios
    /\ pc = k \o "_parse"
    /\ ts_start' = AddrTimerStart(out, now)
    /\ timers' = IF AddrTimerStart(out, now) # None THEN timers \cup {k} ELSE timers
    /\ IF AddrPays(out)
       THEN /\ pc' = k \o "_pay"
            /\ inflight' = (inflight \ {Call(k, 0, "parse")}) \cup {Call(k, 1, "lnurl_pay")}
            /\ sdkLog' = Append(sdkLog, Call(k, 1, "lnurl_pay"))
            /\ delay' = 0
            /\ UNCHANGED <<res, stepLog>>
       ELSE /\ ScenarioReturns(k, ParseFailResult(out))
            /\ inflight' = inflight \ {Call(k, 0, "parse")}
            /\ UNCHANGED <<sdkLog, delay>>
    /\ UNCHANGED <<run, start_ts, sess, now, wtr, fileExists, file, delays,
                   fileAtStart, done>>

\* lnurl_pay returns and the scenario returns the classified pair.
LnurlPayReturn(k, out) ==
    /\ k \in AddrScenarios
    /\ pc = k \o "_pay"
    /\ ScenarioReturns(k, LnurlPayResult(out, CHOOSE t \in ts_start : TRUE, now))
    /\ inflight' = inflight \ {Call(k, 1, "lnurl_pay")}
    /\ ts_start' = None
    /\ UNCHANGED <<run, start_ts, sess, now, delay, wtr, fileExists, file, sdkLog,
                   delays, timers, fileAtStart, done>>

\* ------------------------------------------------------------ pay_gl_2_gl
\* main calls pay_gl_2_gl(sdk_1.clone(), sdk_2.clone()), which awaits
\* sdk_receiver.receive_payment.
RecvCall ==
    /\ pc = "gl2gl"
    /\ pc' = "gl2gl_recv"
    /\ inflight' = inflight \cup {Call("gl2gl", 2, "receive_payment")}
    /\ sdkLog' = Append(sdkLog, Call("gl2gl", 2, "receive_payment"))
    /\ stepLog' = Append(stepLog, Begin("gl2gl"))
    /\ delay' = 0
    /\ UNCHANGED <<run, start_ts, sess, now, ts_start, res, wtr, fileExists, file,
                   delays, timers, fileAtStart, done>>

\* Faulty variant of GlTimerStart: the Instant is taken before receive_payment.
GlTimerStartAtCall(out, atCall, atReturn) == IF out.tag = "Ok" THEN {atCall} ELSE {}

\* The Instant the node-to-node scenario captures: atCall is the clock when
\* receive_payment was issued, atReturn the clock when it returned out.
GlTimerStart(out, atCall, atReturn) == IF out.tag = "Ok" THEN Some(atReturn) ELSE None

\* Whether the node-to-node scenario goes on to send_payment.
GlPays(out) == out.tag = "Ok"

\* receive_payment returns: Ok takes ts_start and awaits send_payment, Err
\* returns test_err.
RecvReturn(out) ==
    /\ pc = "gl2gl_recv"
    /\ delays' = Append(delays, <<"receive_payment", delay, out.tag>>)
    /\ ts_start' = GlTimerStart(out, now - delay, now)
    /\ timers' = IF GlTimerStart(out, now - delay, now) # None
                 THEN timers \cup {"gl2gl"} ELSE timers
    /\ IF GlPays(out)
       THEN /\ pc' = "gl2gl_send"
            /\ inflight' = (inflight \ {Call("gl2gl", 2, "receive_payment")})
                             \cup {Call("gl2gl", 1, "send_payment")}
            /\ sdkLog' = Append(sdkLog, Call("gl2gl", 1, "send_payment"))
            /\ delay' = 0
            /\ UNCHANGED <<res, stepLog>>
       ELSE /\ ScenarioReturns("gl2gl", RecvFailResult(out))
            /\ inflight' = inflight \ {Call("gl2gl", 2, "receive_payment")}
            /\ UNCHANGED <<sdkLog, delay>>
    /\ UNCHANGED <<run, start_ts, sess, now, wtr, fileExists, file, fileAtStart, done>>

\* send_payment returns and the scenario returns the classified pair.
SendReturn(out) ==
    /\ pc = "gl2gl_send"
    /\ ScenarioReturns("gl2gl", SendResult(out, CHOOSE t \in ts_start : TRUE, now))
    /\ inflight' = inflight \ {Call("gl2gl", 1, "send_payment")}
    /\ ts_start' = None
    /\ delays' = Append(delays, <<"send_payment", delay, out.tag>>)
    /\ UNCHANGED <<run, start_ts, sess, now, delay, wtr, fileExists, file, sdkLog,
                   timers, fileAtStart, done>>

\* -------------------------------------------------------------- teardown
\* sdk_i.disconnect() is issued and awaited.
DisconnectCall(i) ==
    /\ pc = PcOf("disconnect", i)
    /\ pc' = PcOf("disconnecting", i)
    /\ inflight' = inflight \cup {Call(PcOf("disconnect", i), i, "disconnect")}
    /\ sdkLog' = Append(sdkLog, Call(PcOf("disconnect", i), i, "disconnect"))
    /\ stepLog' = Append(stepLog, Begin(PcOf("disconnect", i)))
    /\ delay' = 0
    /\ UNCHANGED <<run, start_ts, sess, now, ts_start, res, wtr, fileExists, file,
                   delays, timers, fileAtStart, done>>

\* Faulty variant of AfterDisconnect: the row is written after the first disconnect.
AfterDisconnectSkip(i) == "open"

\* Where main continues after session i is disconnected.
AfterDisconnect(i) == IF i = 1 THEN "disconnect_2" ELSE "open"

\* sdk_i.disconnect().await? returns.
DisconnectReturn(i, ok) ==
    /\ pc = PcOf("disconnecting", i)
    /\ IF ok
       THEN /\ pc' = AfterDisconnect(i)
            /\ sess' = [sess EXCEPT ![i] = "disconnected"]
            /\ inflight' = inflight \ {Call(PcOf("disconnect", i), i, "disconnect")}
            /\ stepLog' = Append(stepLog, End(PcOf("disconnect", i)))
       ELSE /\ Abort(PcOf("disconnect", i))
            /\ UNCHANGED sess
    /\ UNCHANGED <<run, start_ts, now, ts_start, delay, res, wtr, fileExists, file,
                   sdkLog, delays, timers, fileAtStart, done>>

\* -------------------------------------------------------------- recorder
\* Faulty variant of OpenedRows: the file is opened with truncate in place of append.
OpenedRowsTruncate(exists, rows) == <<>>

\* The rows of the file once OpenOptions::new().append(true).create(true)
\* has opened it: an absent file is created empty, an existing one is kept.
OpenedRows(exists, rows) == IF exists THEN rows ELSE <<>>

\* OpenOptions::new().append(true).create(true).open(path)? and
\* csv::Writer::from_writer(file).
OpenFile(ok) ==
    /\ pc = "open"
    /\ IF ok
       THEN /\ pc' = "write"
            /\ fileExists' = TRUE
            /\ file' = OpenedRows(fileExists, file)
            /\ stepLog' = Append(stepLog, Begin("csv"))
            /\ UNCHANGED inflight
       ELSE /\ Abort("csv")
            /\ UNCHANGED <<fileExists, file>>
    /\ UNCHANGED <<run, start_ts, sess, now, ts_start, delay, res, wtr, sdkLog,
                   delays, timers, fileAtStart, done>>

\* wtr.write_record(&[..])? -- the record goes to the writer's buffer.
WriteRecord(ok) ==
    /\ pc = "write"
    /\ IF ok
       THEN /\ pc' = "flush"
            /\ wtr' = Append(wtr, CsvRecord(CHOOSE t \in start_ts : TRUE,
                                            res["gl2wos"], res["gl2gl"], res["gl2tor"]))
            /\ UNCHANGED <<inflight, stepLog>>
       ELSE /\ Abort("csv")
            /\ UNCHANGED wtr
    /\ UNCHANGED <<run, start_ts, sess, now, ts_start, delay, res, fileExists, file,
                   sdkLog, delays, timers, fileAtStart, done>>

\* The rows of a file opened for append after the buffer is written to it.
Appended(rows, buf) == rows \o buf

\* wtr.flush()? and Ok(()).
Flush(ok) ==
    /\ pc = "flush"
    /\ IF ok
       THEN /\ pc' = "done"
            /\ file' = Appended(file, wtr)
            /\ done' = done \o wtr
            /\ wtr' = <<>>
            /\ stepLog' = Append(stepLog, End("csv"))
            /\ UNCHANGED inflight
       ELSE /\ Abort("csv")
            /\ UNCHANGED <<file, done, wtr>>
    /\ UNCHANGED <<run, start_ts, sess, now, ts_start, delay, res, fileExists,
                   sdkLog, delays, timers, fileAtStart>>

\* ------------------------------------------------------------ environment
\* A second passes while a call of a scenario is pending.  The clock is read
\* only inside the scenarios, and only differences of its readings are used,
\* so the time spent provisioning and disconnecting is not counted; the
\* harness's own steps take no time at the resolution of as_secs().
Tick ==
    /\ \E c \in inflight : c.step \in Scenarios
    /\ now < MaxClock
    /\ now' = now + 1
    /\ delay' = delay + 1
    /\ UNCHANGED <<pc, run, start_ts, sess, inflight, ts_start, res, wtr, fileExists,
                   file, sdkLog, stepLog, delays, timers, fileAtStart, done>>

\* The program is executed again (a new process) against the same CSV file.
NewRun ==
    /\ Exited
    /\ run < MaxRuns
    /\ run' = run + 1
    /\ FreshRun
    /\ fileAtStart' = file
    /\ UNCHANGED <<fileExists, file, done>>

\* ---------------------------------------------------------- specifications
\* The steps of one execution, with the outcomes drawn from the given sets.
Steps(starts, parses, pays, sdks) ==
    \/ \E t \in starts : Start(t)
    \/ \E ok \in BOOLEAN : LoadConfig(ok)
    \/ \E ok \in BOOLEAN : InitLogging(ok)
    \/ \E i \in Sessions, ok \in BOOLEAN : GetSdkCall(i, ok)
    \/ \E i \in Sessions, ok \in BOOLEAN : GetSdkReturn(i, ok)
    \/ \E i \in Sessions, ok \in BOOLEAN : NodeInfo(i, ok)
    \/ \E k \in AddrScenarios : ParseCall(k)
    \/ \E k \in AddrScenarios, out \in parses : ParseReturn(k, out)
    \/ \E k \in AddrScenarios, out \in pays : LnurlPayReturn(k, out)
    \/ RecvCall
    \/ \E out \in sdks : RecvReturn(out)
    \/ \E out \in sdks : SendReturn(out)
    \/ \E i \in Sessions : DisconnectCall(i)
    \/ \E i \in Sessions, ok \in BOOLEAN : DisconnectReturn(i, ok)
    \/ \E ok \in BOOLEAN : OpenFile(ok)
    \/ \E ok \in BOOLEAN : WriteRecord(ok)
    \/ \E ok \in BOOLEAN : Flush(ok)

\* One execution of the program, with time passing.
Next == Steps(StartOutcomes, ParseOutcomes, PayOutcomes, SdkOutcomes) \/ Tick

Spec == Init /\ [][Next]_vars

\* Repeated executions against the same file.  The recorder does not look
\* at the clock or at the text of a status, so one outcome of each shape
\* suffices and time stands still.
RunStarts == StartOutcomes
RunParses == {o \in ParseOutcomes : o.tag \in {"LnUrlPay", "Other"}}
RunPays == {o \in PayOutcomes : o.tag = "EndpointSuccess"
                                \/ (o.tag = "EndpointError" /\ o.reason # "")}

NextRuns == Steps(RunStarts, RunParses, RunPays, SdkOutcomes) \/ NewRun

SpecRuns == Init /\ [][NextRuns]_vars

\* ------------------------------------------------------------ properties
Returned(k) == res[k] # NoRes

\* The SDK calls of the run so far that match step k, session i and op.
Issued(k, i, op) == {j \in 1..Len(sdkLog) : sdkLog[j] = Call(k, i, op)}

\* C1: every returned scenario result is either (elapsed present, "Ok") or
\* (elapsed absent, a non-empty message).
C1_ResultShapes ==
    \A k \in Scenarios :
        Returned(k) =>
            \/ res[k][1] # None /\ res[k][2] = "Ok"
            \/ res[k][1] = None /\ res[k][2] # ""

\* C2: in pay_gl_2_gl the timer is taken only once the invoice is created, a
\* success reports exactly the seconds send_payment was pending, whatever
\* receive_payment took, and a failed invoice creation starts no timer and
\* issues no payment.
C2_TimerExcludesInvoice ==
    /\ "gl2gl" \in timers => Len(delays) >= 1 /\ delays[1][3] = "Ok"
    /\ (Returned("gl2gl") /\ res["gl2gl"][2] = "Ok") =>
           /\ Len(delays) = 2
           /\ delays[1][1] = "receive_payment" /\ delays[2][1] = "send_payment"
           /\ res["gl2gl"][1] = {delays[2][2]}
    /\ (Len(delays) >= 1 /\ delays[1][3] = "Err") =>
           /\ "gl2gl" \notin timers
           /\ Issued("gl2gl", 1, "send_payment") = {}
           /\ Returned("gl2gl") /\ res["gl2gl"][1] = None

\* C2 witness: the invoice took 2 seconds, the payment 3, the result is (3, "Ok").
C2_Witness ==
    /\ delays = <<<<"receive_payment", 2, "Ok">>, <<"send_payment", 3, "Ok">>>>
    /\ res["gl2gl"] = <<{3}, "Ok">>

\* C3: no scenario timer starts before a full sync of each session has been
\* requested by the harness.
C3_SyncBeforeTimers ==
    timers # {} => \A i \in Sessions : \E j \in 1..Len(sdkLog) :
                       sdkLog[j].sess = i /\ sdkLog[j].op = "sync"

\* C6: at process exit every session that was created has had disconnect
\* called on it.
C6_DisconnectedAtExit ==
    Exited => \A i \in Sessions :
                  sess[i] # "none" =>
                      Issued(PcOf("disconnect", i), i, "disconnect") # {}

\* Occurrences of the event e in the step history of the run.
Count(e) == Cardinality({j \in 1..Len(stepLog) : stepLog[j] = e})

Aborted(step) ==
    pc = "aborted" /\ stepLog # <<>> /\ stepLog[Len(stepLog)] = <<"abort", step>>

\* The columns of the elapsed field of each scenario in a row.
Column(k) == CASE k = "gl2wos" -> 2 [] k = "gl2gl" -> 4 [] k = "gl2tor" -> 6

\* The row `row` carries the pair `pair` of scenario k: an absent elapsed as
\* the empty string, a present one in decimal, and the status beside it.
Carries(row, k, pair) ==
    /\ row[Column(k)] = (IF pair[1] = {} THEN "" ELSE ToString(CHOOSE d \in pair[1] : TRUE))
    /\ row[Column(k) + 1] = pair[2]

\* C4: once the first scenario is entered no failure inside a scenario ends
\* the run: whatever the scenarios return, each of the three is run exactly
\* once, and the row a completed run writes carries each failed scenario as
\* (empty elapsed, reason) beside the results of the others.
C4_ScenarioFailuresAreData ==
    /\ \A k \in Scenarios : Count(Begin(k)) <= 1 /\ ~Aborted(k)
    /\ (Count(Begin("gl2wos")) = 1 /\ pc \notin {"gl2wos_parse", "gl2wos_pay", "gl2gl",
            "gl2gl_recv", "gl2gl_send", "gl2tor", "gl2tor_parse", "gl2tor_pay"}) =>
           \A k \in Scenarios : Count(Begin(k)) = 1 /\ Count(End(k)) = 1 /\ Returned(k)
    /\ pc = "done" =>
           /\ file # <<>>
           /\ \A k \in Scenarios : Carries(file[Len(file)], k, res[k])

\* C4 witness: the first address scenario failed to parse, the node-to-node
\* payment failed, the last scenario succeeded, and the row was written.
C4_Witness ==
    /\ pc = "done"
    /\ res["gl2wos"] = <<{}, "Failed to parse LN Address">>
    /\ res["gl2gl"] = <<{}, "[sdk-tx] Failed to send payment: Generic: timeout">>
    /\ res["gl2tor"] = <<{1}, "Ok">>
    /\ file = <<<<"1", "", "Failed to parse LN Address", "",
                  "[sdk-tx] Failed to send payment: Generic: timeout", "1", "Ok">>>>

\* C5: across repeated runs the file only grows, by the one row of each run
\* that returns Ok; rows already in the file are never changed; the file
\* holds the rows of the completed runs in run order; every row has the 7
\* fields timestamp, then (elapsed or "", status) of gl2wos, gl2gl, gl2tor.
C5_AppendOneRow ==
    /\ Len(file) >= Len(fileAtStart)
    /\ SubSeq(file, 1, Len(fileAtStart)) = fileAtStart
    /\ Len(file) = Len(fileAtStart) + (IF pc = "done" THEN 1 ELSE 0)
    /\ file = done
    /\ \A j \in 1..Len(file) : Len(file[j]) = 7
    /\ pc \in {"write", "flush", "done"} => fileExists
    /\ pc = "done" =>
           /\ file[Len(file)][1] = ToString(CHOOSE t \in start_ts : TRUE)
           /\ \A k \in Scenarios : Carries(file[Len(file)], k, res[k])

\* C5 witness: the second run has appended its row, different from the
\* first run's, below it; one of the rows has an empty elapsed field.
C5_Witness ==
    /\ run = 2 /\ pc = "done"
    /\ Len(file) = 2 /\ file[1] # file[2]
    /\ file[1] = fileAtStart[1]
    /\ file[2][2] = "" /\ file[1][2] = "0"

AddrFailText(out) ==
    IF out.tag = "LnUrlError" THEN out.reason ELSE "Failed to parse LN Address"

AddrFailTextPrefixed(out) ==
    IF out.tag = "LnUrlError" THEN "LNURL error: " \o out.reason
    ELSE "Failed to parse LN Address"

PayShape(k, out) ==
    IF out.tag = "EndpointSuccess"
    THEN res'[k][1] # None /\ res'[k][2] = "Ok"
    ELSE res'[k] = <<None, out.reason>>

\* C7 (as claimed): the failure status of the address scenario is the reason
\* of the failing source, unmodified, also for an explicit LNURL error.
C7_StatusIsReasonUnmodified ==
    [][\A k \in AddrScenarios :
         /\ \A out \in ParseOutcomes :
                (out.tag # "LnUrlPay" /\ ParseReturn(k, out)) =>
                    res'[k] = <<None, AddrFailText(out)>>
         /\ \A out \in PayOutcomes : LnurlPayReturn(k, out) => PayShape(k, out)]_vars

\* C7 (amended): as claimed, except that an explicit LNURL error with reason
\* r gives the status "LNURL error: " followed by r.
C7_StatusIsReasonPrefixed ==
    [][\A k \in AddrScenarios :
         /\ \A out \in ParseOutcomes :
                (out.tag # "LnUrlPay" /\ ParseReturn(k, out)) =>
                    res'[k] = <<None, AddrFailTextPrefixed(out)>>
         /\ \A out \in PayOutcomes : LnurlPayReturn(k, out) => PayShape(k, out)]_vars

\* C7 witness: parse yielded an LNURL error with reason "invoice expired".
C7_Witness == res["gl2wos"] = <<{}, "LNURL error: invoice expired">>

\* C8: a parse that yields no LNURL-pay descriptor makes the address scenario
\* return a failure at once, with no timer taken and no lnurl_pay issued;
\* lnurl_pay is issued at most once per scenario call, right after a parse
\* that yielded the descriptor.
C8_NoPayWithoutParse ==
    /\ [](\A k \in AddrScenarios :
            /\ Cardinality(Issued(k, 1, "lnurl_pay")) <= 1
            /\ k \in timers <=> Issued(k, 1, "lnurl_pay") # {}
            /\ \A j \in Issued(k, 1, "lnurl_pay") :
                   j > 1 /\ sdkLog[j - 1] = Call(k, 0, "parse"))
    /\ [][\A k \in AddrScenarios :
            /\ \A out \in ParseOutcomes :
                   (out.tag # "LnUrlPay" /\ ParseReturn(k, out)) =>
                       /\ res'[k] # NoRes /\ res'[k][1] = None
                       /\ pc' = AfterScenario(k)
                       /\ ts_start' = None /\ k \notin timers'
                       /\ Issued(k, 1, "lnurl_pay")' = {}
            /\ (Issued(k, 1, "lnurl_pay") = {} /\ Issued(k, 1, "lnurl_pay")' # {}) =>
                   ParseReturn(k, [tag |-> "LnUrlPay", reason |-> ""])]_vars

\* C8 witness: both address scenarios returned a parse failure; neither took
\* a timer nor issued lnurl_pay.
C8_Witness ==
    /\ res["gl2wos"] = <<{}, "Failed to parse LN Address">>
    /\ res["gl2tor"] = <<{}, "LNURL error: ">>
    /\ timers \cap AddrScenarios = {}
    /\ \A k \in AddrScenarios : Issued(k, 1, "lnurl_pay") = {}

StepOrder ==
    <<"config", "sdk_1", "sdk_2", "gl2wos", "gl2gl", "gl2tor", "disconnect_1",
      "disconnect_2", "csv">>

Begins == SelectSeq(stepLog, LAMBDA e : e[1] = "begin")

\* C9: the steps of a run begin in the one fixed order, each ends (or ends
\* the run) before the next begins, at most one SDK call is in flight at any
\* time, and a scenario is in progress only with both sessions connected.
C9_OneFixedOrder ==
    /\ Len(Begins) <= Len(StepOrder)
    /\ \A j \in 1..Len(Begins) : Begins[j][2] = StepOrder[j]
    /\ \A j \in 1..Len(stepLog) :
           /\ (stepLog[j][1] = "begin" /\ j < Len(stepLog)) =>
                  /\ stepLog[j + 1][1] \in {"end", "abort"}
                  /\ stepLog[j + 1][2] = stepLog[j][2]
           /\ stepLog[j][1] = "end" => (j > 1 /\ stepLog[j - 1] = Begin(stepLog[j][2]))
           /\ stepLog[j][1] = "abort" => j = Len(stepLog)
    /\ Cardinality(inflight) <= 1
    /\ \A c \in inflight :
           /\ stepLog[Len(stepLog)] = Begin(c.step)
           /\ c.step \in Scenarios => \A i \in Sessions : sess[i] = "connected"

\* C9 witness: a run went through all nine steps.
C9_Witness == pc = "done" /\ Len(Begins) = 9 /\ Count(End("csv")) = 1

\* C10: a row is in the file only if the three scenarios returned and both
\* disconnects succeeded; a run that aborts, at a disconnect in particular,
\* leaves the file as it found it; a run never adds more than one row.
C10_RowOnlyAfterDisconnects ==
    /\ Len(file) <= Len(fileAtStart) + 1
    /\ (file # fileAtStart \/ wtr # <<>>) =>
           /\ \A i \in Sessions : sess[i] = "disconnected"
           /\ \A k \in Scenarios : Returned(k)
    /\ pc = "aborted" => file = fileAtStart

\* C10 witness: the three scenarios returned, the second disconnect failed,
\* the run aborted and the file has no row.
C10_Witness ==
    /\ Aborted("disconnect_2")
    /\ \A k \in Scenarios : Returned(k)
    /\ file = <<>>

====
